---- MODULE Spec2Model ----
(***************************************************************************)
(* A model of pie_cache (src/cache.go): a file-backed key-value cache with *)
(* per-item expiration.  Strings are sequences of one-character strings,   *)
(* byte slices are sequences of numbers in 0..255, a path is a sequence of *)
(* path segments below baseDir, and instants are integer clock ticks.      *)
(***************************************************************************)
EXTENDS Integers, Sequences, FiniteSets, TLC

\***************************************************************************
\* Bounds of the model
\***************************************************************************

\* The clock runs from 0 to MaxTime.
MaxTime == 2

\* The TTLs callers pass: negative, zero and positive.
TTLs == {-1, 0, 1}

\* The default TTLs a cache is constructed with.
DefaultTTLs == {1}

\* The numbers of ticks the clock advances between the two time.Now() calls
\* of one SetWithTTL.
Skews == {0, 2}

\* The I/O faults a SetWithTTL meets: none, or WriteFile failing after it
\* truncated the file.
Faults == {"none", "write"}

\* The I/O faults a Get meets: none, or ReadFile failing on a file that is
\* there.
ReadFaults == {"none", "read"}

\* The I/O faults a PurgeExpired meets: os.Lstat of the root failing, the
\* root or the directories of the files being unreadable, and ReadFile
\* failing on every file.
WalkFaults == {"lstat root", "readdir root", "readdir leaf", "read"}

\***************************************************************************
\* Strings
\***************************************************************************

InfoSuffix == <<"_", "i", "n", "f", "o", ".", "j", "s", "o", "n">>

TocSuffix == <<"_", "t", "o", "c", ".", "j", "s", "o", "n">>

JsonExt == <<".", "j", "s", "o", "n">>

\* The keys callers use: one without an extension and one that ends in
\* "_info.json".  Both normalize to "a", so their files share the shard
\* directories.  Each is a single path segment: it holds no path separator
\* and is neither empty nor a dot segment, so that filepath.Join appends it
\* unchanged.
KeyA == <<"a">>

KeyAInfo == <<"a">> \o InfoSuffix

Keys == {KeyA, KeyAInfo}

\* A third name that normalizes to "a"; no call of the model uses it.
KeyAToc == <<"a">> \o TocSuffix

\* Keys in which one of the two strings lies inside the other:
\* "a_info_toc.json.json" and "a_toc_info.json.json".
KeyInfoAroundToc == <<"a", "_", "i", "n", "f", "o">> \o TocSuffix \o JsonExt

KeyTocAroundInfo == <<"a", "_", "t", "o", "c">> \o InfoSuffix \o JsonExt

\* The keys of the calls that exercise the normalization.
QuirkKeys == {KeyAInfo, KeyInfoAroundToc, KeyTocAroundInfo}

\* The payloads callers store: the empty slice and one with a NUL byte.
Payloads == {<<>>, <<104, 0>>}

\* strings.HasPrefix(SubSeq(s, i, Len(s)), old)
HasAt(s, i, old) ==
    /\ i + Len(old) - 1 <= Len(s)
    /\ SubSeq(s, i, i + Len(old) - 1) = old

RECURSIVE ReplaceFrom(_, _, _)
ReplaceFrom(s, i, old) ==
    IF i > Len(s) THEN <<>>
    ELSE IF HasAt(s, i, old) THEN ReplaceFrom(s, i + Len(old), old)
    ELSE <<s[i]>> \o ReplaceFrom(s, i + 1, old)

\* strings.ReplaceAll(s, old, ""), for a non-empty old: every non-overlapping
\* occurrence, found left to right, is removed.
ReplaceAllEmpty(s, old) == ReplaceFrom(s, 1, old)

\* A mutant of NormalizeKey: "_toc.json" is removed first.
NormalizeKeyTocFirst(key) ==
    ReplaceAllEmpty(ReplaceAllEmpty(key, TocSuffix), InfoSuffix)

\* The key as hashed and as stored in the item.
NormalizeKey(key) == ReplaceAllEmpty(ReplaceAllEmpty(key, InfoSuffix), TocSuffix)

RECURSIVE ExtFrom(_, _)
ExtFrom(path, i) ==
    IF i < 1 \/ path[i] = "/" THEN <<>>
    ELSE IF path[i] = "." THEN SubSeq(path, i, Len(path))
    ELSE ExtFrom(path, i - 1)

\* filepath.Ext of a path whose last segment is name.
Ext(name) == ExtFrom(name, Len(name))

\* strings.TrimSuffix
TrimSuffix(s, suffix) ==
    IF Len(s) >= Len(suffix) /\ SubSeq(s, Len(s) - Len(suffix) + 1, Len(s)) = suffix
    THEN SubSeq(s, 1, Len(s) - Len(suffix))
    ELSE s

\***************************************************************************
\* Hashing and path addressing
\***************************************************************************

dirLevels == 3

prefixLen == 2

purgeOnLoad == TRUE

\* hex.EncodeToString(sha256.Sum256(s)) for the strings the model hashes;
\* the digests are the real SHA-256 values.
HashStr(s) ==
    CASE s = <<"a">> ->
           <<"c","a","9","7","8","1","1","2","c","a","1","b","b","d","c","a",
             "f","a","c","2","3","1","b","3","9","a","2","3","d","c","4","d",
             "a","7","8","6","e","f","f","8","1","4","7","c","4","e","7","2",
             "b","9","8","0","7","7","8","5","a","f","e","e","4","8","b","b">>
      [] s = <<"a">> \o InfoSuffix ->
           <<"8","1","5","6","c","f","d","d","c","b","9","6","3","f","7","2",
             "7","a","e","a","8","9","7","a","a","9","7","e","7","b","4","2",
             "3","2","5","4","8","d","8","7","4","8","c","f","7","2","c","c",
             "2","3","1","3","a","f","a","a","5","6","3","4","a","7","d","b">>
      [] s = <<"a">> \o TocSuffix ->
           <<"d","6","2","e","1","9","6","d","b","a","6","3","e","4","3","2",
             "c","2","4","6","7","5","c","3","8","b","8","b","5","b","2","c",
             "3","7","4","6","c","5","a","9","1","5","0","c","4","2","d","e",
             "1","2","d","0","2","5","d","8","a","8","3","e","9","b","3","4">>

RECURSIVE ShardPath(_, _, _)
\* The loop of getFilePath: path after levels i .. dirLevels-1 are joined,
\* or the error.
ShardPath(hashStr, i, path) ==
    IF i >= dirLevels THEN [err |-> "", path |-> path]
    ELSE LET start == i * prefixLen
             end == start + prefixLen
         IN IF end > Len(hashStr)
            THEN [err |-> "invalid prefix length", path |-> <<>>]
            ELSE ShardPath(hashStr, i + 1,
                           Append(path, SubSeq(hashStr, start + 1, end)))

\* A mutant of getFilePath: the normalized key names the file.
getFilePathNormalizedName(key) ==
    LET hasKey == NormalizeKey(key)
        r == ShardPath(HashStr(hasKey), 0, <<>>)
    IN IF r.err # "" THEN r
       ELSE [err |-> "", path |-> Append(r.path, hasKey)]

\* A mutant of getFilePath: the hash names the file.
getFilePathHashName(key) ==
    LET hasKey == NormalizeKey(key)
        r == ShardPath(HashStr(hasKey), 0, <<>>)
    IN IF r.err # "" THEN r
       ELSE [err |-> "", path |-> Append(r.path, HashStr(hasKey))]

getFilePath(key) ==
    LET hasKey == NormalizeKey(key)
        r == ShardPath(HashStr(hasKey), 0, <<>>)
    IN IF r.err # "" THEN r
       ELSE [err |-> "", path |-> Append(r.path, key)]

\* getFilePath of every key, evaluated once.
FilePathOf == [k \in Keys \cup QuirkKeys |-> getFilePath(k)]

\* filepath.Dir and the directories os.MkdirAll makes sure exist.
Dir(path) == SubSeq(path, 1, Len(path) - 1)

MkdirAll(dir) == {SubSeq(dir, 1, n) : n \in 0 .. Len(dir)}

\***************************************************************************
\* Serialization
\***************************************************************************

\* The sextets of one group of 1, 2 or 3 bytes: 2, 3 or 4 of them.
EncodeGroup(g) ==
    LET b1 == g[1]
        b2 == IF Len(g) >= 2 THEN g[2] ELSE 0
        b3 == IF Len(g) >= 3 THEN g[3] ELSE 0
        n == b1 * 65536 + b2 * 256 + b3
        all == << n \div 262144, (n \div 4096) % 64, (n \div 64) % 64, n % 64 >>
    IN SubSeq(all, 1, Len(g) + 1)

RECURSIVE EncodeSextets(_)
EncodeSextets(bytes) ==
    IF Len(bytes) = 0 THEN <<>>
    ELSE IF Len(bytes) <= 3 THEN EncodeGroup(bytes)
    ELSE EncodeGroup(SubSeq(bytes, 1, 3)) \o EncodeSextets(SubSeq(bytes, 4, Len(bytes)))

\* base64.StdEncoding, which encoding/json applies to a []byte: the sextets
\* of the text and the number of "=" that pad it to a multiple of four.
Base64Encode(bytes) ==
    [text |-> EncodeSextets(bytes), pad |-> (3 - (Len(bytes) % 3)) % 3]

\* The bytes of one group of 2, 3 or 4 sextets: 1, 2 or 3 of them.
DecodeGroup(q) ==
    LET c3 == IF Len(q) >= 3 THEN q[3] ELSE 0
        c4 == IF Len(q) >= 4 THEN q[4] ELSE 0
        n == q[1] * 262144 + q[2] * 4096 + c3 * 64 + c4
        all == << n \div 65536, (n \div 256) % 256, n % 256 >>
    IN SubSeq(all, 1, Len(q) - 1)

RECURSIVE DecodeSextets(_)
DecodeSextets(text) ==
    IF Len(text) = 0 THEN <<>>
    ELSE IF Len(text) <= 4 THEN DecodeGroup(text)
    ELSE DecodeGroup(SubSeq(text, 1, 4)) \o DecodeSextets(SubSeq(text, 5, Len(text)))

\* base64.StdEncoding.DecodeString; the text is ill-formed when its length
\* with the padding is no multiple of four.
Base64Decode(enc) ==
    IF (Len(enc.text) + enc.pad) % 4 # 0 \/ Len(enc.text) % 4 = 1
    THEN [err |-> "illegal base64 data", bytes |-> <<>>]
    ELSE [err |-> "", bytes |-> DecodeSextets(enc.text)]

RECURSIVE UpToNul(_)
UpToNul(bytes) ==
    IF Len(bytes) = 0 \/ bytes[1] = 0 THEN <<>>
    ELSE <<bytes[1]>> \o UpToNul(SubSeq(bytes, 2, Len(bytes)))

\* A mutant of Marshal: the payload is written as text that ends at its
\* first NUL byte.
MarshalAsText(item) ==
    << [key |-> item.Key, data |-> Base64Encode(UpToNul(item.Data)),
        expireAt |-> item.ExpireAt, created |-> item.Created] >>

\* json.Marshal(item): one JSON document.  A file's content is the sequence
\* of the documents it holds, so <<>> is a file of zero bytes.  The time
\* fields are RFC 3339 text with nanoseconds, which keeps the instant.
Marshal(item) ==
    << [key |-> item.Key, data |-> Base64Encode(item.Data),
        expireAt |-> item.ExpireAt, created |-> item.Created] >>

ZeroItem == [Key |-> <<>>, Data |-> <<>>, ExpireAt |-> 0, Created |-> 0]

\* json.Unmarshal(data, &item)
Unmarshal(content) ==
    IF Len(content) # 1
    THEN [err |-> "unexpected end of JSON input", item |-> ZeroItem]
    ELSE LET d == Base64Decode(content[1].data)
         IN IF d.err # "" THEN [err |-> d.err, item |-> ZeroItem]
            ELSE [err |-> "",
                  item |-> [Key |-> content[1].key, Data |-> d.bytes,
                            ExpireAt |-> content[1].expireAt,
                            Created |-> content[1].created]]

\* time.Time.After
After(t, u) == t > u


\***************************************************************************
\* State
\***************************************************************************

VARIABLES
    files,    \* the regular files below baseDir: path -> content
    dirs,     \* the directories below baseDir (the root is <<>>)
    now,      \* the clock
    ttl,      \* fc.ttl, the default TTL the cache was constructed with
    res,      \* the last call and what it returned
    pend,     \* history: per key, the last successful Set with no Set or
              \* Delete of that key since
    gone,     \* history: per key, whether a Delete succeeded with no Set
              \* of that key since
    th        \* the calls in progress on concurrent threads, each with its
              \* position and its local variables

vars == <<files, dirs, now, ttl, res, pend, gone, th>>

NoPend == <<>>

NoRes == [op |-> "NewFileCache", key |-> <<>>, err |-> "", val |-> <<>>]

\* NewFileCache(baseDir, ttl) on an empty directory.
Init ==
    /\ files = <<>>
    /\ dirs = {<<>>}
    /\ now = 0
    /\ ttl \in DefaultTTLs
    /\ res = NoRes
    /\ pend = [k \in Keys |-> NoPend]
    /\ gone = [k \in Keys |-> FALSE]
    /\ th = <<>>

\* The file map with path bound to content, and with path removed.
WriteFile(fs, path, content) ==
    [p \in (DOMAIN fs) \cup {path} |-> IF p = path THEN content ELSE fs[p]]

Remove(fs, path) == [p \in (DOMAIN fs) \ {path} |-> fs[p]]

\***************************************************************************
\* Operations
\***************************************************************************

\* A mutant of SetOutcome: a record that is replaced keeps its expireAt
\* when that is the later one.
SetOutcomeKeepsLaterExpiry(fs, ds, start, created, key, data, d, fault) ==
    LET fp == FilePathOf[key]
        old == IF fp.path \in DOMAIN fs /\ Unmarshal(fs[fp.path]).err = ""
               THEN Unmarshal(fs[fp.path]).item.ExpireAt ELSE start + d
        expireAt == IF old > start + d THEN old ELSE start + d
        item == [Key |-> NormalizeKey(key), Data |-> data,
                 ExpireAt |-> expireAt, Created |-> created]
    IN IF fault = "write"
       THEN [err |-> "failed to write cache file",
             files |-> WriteFile(fs, fp.path, <<>>),
             dirs |-> ds \cup MkdirAll(Dir(fp.path))]
       ELSE [err |-> "",
             files |-> WriteFile(fs, fp.path, Marshal(item)),
             dirs |-> ds \cup MkdirAll(Dir(fp.path))]

\* A mutant of SetOutcome: a TTL that is not positive stands for the TTL of
\* one tick.
SetOutcomeDefaultsNonPositive(fs, ds, start, created, key, data, d, fault) ==
    LET expireAt == IF d <= 0 THEN start + 1 ELSE start + d
        item == [Key |-> NormalizeKey(key), Data |-> data,
                 ExpireAt |-> expireAt, Created |-> created]
        fp == FilePathOf[key]
    IN IF fault = "write"
       THEN [err |-> "failed to write cache file",
             files |-> WriteFile(fs, fp.path, <<>>),
             dirs |-> ds \cup MkdirAll(Dir(fp.path))]
       ELSE [err |-> "",
             files |-> WriteFile(fs, fp.path, Marshal(item)),
             dirs |-> ds \cup MkdirAll(Dir(fp.path))]

\* What SetWithTTL(key, data, d) does and returns when it starts at instant
\* start, reads the clock again at instant created, and meets the I/O fault
\* fault.
SetOutcome(fs, ds, start, created, key, data, d, fault) ==
    LET expireAt == start + d
        item == [Key |-> NormalizeKey(key), Data |-> data,
                 ExpireAt |-> expireAt, Created |-> created]
        fp == FilePathOf[key]
    IN IF fp.err # "" THEN [err |-> fp.err, files |-> fs, dirs |-> ds]
       ELSE IF fault = "write"
       THEN [err |-> "failed to write cache file",
             files |-> WriteFile(fs, fp.path, <<>>),
             dirs |-> ds \cup MkdirAll(Dir(fp.path))]
       ELSE [err |-> "",
             files |-> WriteFile(fs, fp.path, Marshal(item)),
             dirs |-> ds \cup MkdirAll(Dir(fp.path))]

\* A mutant of GetOutcomeUnder: a successful read extends the record's
\* life by one tick from the instant of the read.
GetOutcomeRefreshes(fs, t, key, fault) ==
    LET fp == FilePathOf[key]
    IN IF fp.path \notin DOMAIN fs
       THEN [err |-> "cache not found", data |-> <<>>, files |-> fs]
       ELSE IF fault = "read"
       THEN [err |-> "failed to read cache file", data |-> <<>>, files |-> fs]
       ELSE LET u == Unmarshal(fs[fp.path])
            IN IF u.err # ""
               THEN [err |-> "failed to parse cache file", data |-> <<>>, files |-> fs]
               ELSE IF After(t, u.item.ExpireAt)
               THEN [err |-> "cache expired", data |-> <<>>,
                     files |-> Remove(fs, fp.path)]
               ELSE [err |-> "", data |-> u.item.Data,
                     files |-> WriteFile(fs, fp.path,
                                  Marshal([u.item EXCEPT !.ExpireAt = t + 1]))]

\* A mutant of GetOutcomeUnder: an expired record is reported and left in
\* place.
GetOutcomeKeepsExpired(fs, t, key, fault) ==
    LET fp == FilePathOf[key]
    IN IF fp.path \notin DOMAIN fs
       THEN [err |-> "cache not found", data |-> <<>>, files |-> fs]
       ELSE IF fault = "read"
       THEN [err |-> "failed to read cache file", data |-> <<>>, files |-> fs]
       ELSE LET u == Unmarshal(fs[fp.path])
            IN IF u.err # ""
               THEN [err |-> "failed to parse cache file", data |-> <<>>, files |-> fs]
               ELSE IF After(t, u.item.ExpireAt)
               THEN [err |-> "cache expired", data |-> <<>>, files |-> fs]
               ELSE [err |-> "", data |-> u.item.Data, files |-> fs]

\* What Get(key) does and returns at instant t when ioutil.ReadFile meets
\* the I/O fault fault.
GetOutcomeUnder(fs, t, key, fault) ==
    LET fp == FilePathOf[key]
    IN IF fp.err # "" THEN [err |-> fp.err, data |-> <<>>, files |-> fs]
       ELSE IF fp.path \notin DOMAIN fs
       THEN [err |-> "cache not found", data |-> <<>>, files |-> fs]
       ELSE IF fault = "read"
       THEN [err |-> "failed to read cache file", data |-> <<>>, files |-> fs]
       ELSE LET u == Unmarshal(fs[fp.path])
            IN IF u.err # ""
               THEN [err |-> "failed to parse cache file", data |-> <<>>, files |-> fs]
               ELSE IF After(t, u.item.ExpireAt)
               THEN [err |-> "cache expired", data |-> <<>>,
                     files |-> IF purgeOnLoad THEN Remove(fs, fp.path) ELSE fs]
               ELSE [err |-> "", data |-> u.item.Data, files |-> fs]

\* Get(key) at instant t with no I/O fault.
GetOutcome(fs, t, key) == GetOutcomeUnder(fs, t, key, "none")

\* What GetString(key) does and returns: Get, and string(data), which holds
\* the bytes of data unchanged; the string is "" when Get fails.
GetStringOutcome(fs, t, key, fault) ==
    LET g == GetOutcomeUnder(fs, t, key, fault)
    IN IF g.err # "" THEN [err |-> g.err, str |-> <<>>, files |-> g.files]
       ELSE [err |-> "", str |-> g.data, files |-> g.files]

\* A mutant of ExistsOutcome: the file is only looked up, never read.
ExistsOutcomeStatOnly(fs, t, key, fault) ==
    LET fp == FilePathOf[key]
    IN [found |-> (fp.err = "" /\ fp.path \in DOMAIN fs), files |-> fs]

\* What Exists(key) does and returns at instant t when the ioutil.ReadFile
\* of its Get meets the I/O fault fault.
ExistsOutcome(fs, t, key, fault) ==
    LET fp == FilePathOf[key]
    IN IF fp.err # "" THEN [found |-> FALSE, files |-> fs]
       ELSE IF fp.path \notin DOMAIN fs THEN [found |-> FALSE, files |-> fs]
       ELSE IF purgeOnLoad
       THEN LET g == GetOutcomeUnder(fs, t, key, fault)
            IN [found |-> (g.err = ""), files |-> g.files]
       ELSE [found |-> TRUE, files |-> fs]

\* A mutant of DeleteOutcome: the record is read first, and a file that
\* does not parse is reported and left in place.
DeleteOutcomeParsedOnly(fs, key) ==
    LET fp == FilePathOf[key]
    IN IF fp.path \notin DOMAIN fs
       THEN [err |-> "cache not found", files |-> fs]
       ELSE IF Unmarshal(fs[fp.path]).err # ""
       THEN [err |-> "failed to parse cache file", files |-> fs]
       ELSE [err |-> "", files |-> Remove(fs, fp.path)]

\* A mutant of DeleteOutcome: the file is emptied, not unlinked.
DeleteOutcomeTruncates(fs, key) ==
    LET fp == FilePathOf[key]
    IN IF fp.path \notin DOMAIN fs
       THEN [err |-> "cache not found", files |-> fs]
       ELSE [err |-> "", files |-> WriteFile(fs, fp.path, <<>>)]

\* What Delete(key) does and returns.
DeleteOutcome(fs, key) ==
    LET fp == FilePathOf[key]
    IN IF fp.err # "" THEN [err |-> fp.err, files |-> fs]
       ELSE IF fp.path \notin DOMAIN fs
       THEN [err |-> "cache not found", files |-> fs]
       ELSE [err |-> "", files |-> Remove(fs, fp.path)]

\* A mutant of PurgeRemoves: a record is removed from the instant it
\* expires on, not only after it.
PurgeRemovesAtExpiry(fs, t, path) ==
    IF Ext(path[Len(path)]) # JsonExt THEN FALSE
    ELSE LET u == Unmarshal(fs[path])
         IN IF u.err # "" THEN TRUE
            ELSE t >= u.item.ExpireAt

\* Whether the walk function of PurgeExpired removes the file at path.
PurgeRemoves(fs, t, path) ==
    IF Ext(path[Len(path)]) # JsonExt THEN FALSE
    ELSE LET u == Unmarshal(fs[path])
         IN IF u.err # "" THEN TRUE
            ELSE After(t, u.item.ExpireAt)

\* What PurgeExpired() leaves at instant t; it returns nil.
PurgeOutcome(fs, t) ==
    LET keep == {p \in DOMAIN fs : ~PurgeRemoves(fs, t, p)}
    IN [p \in keep |-> fs[p]]

\* What PurgeExpired() does and returns at instant t when the walk meets
\* the fault fault.  filepath.Walk hands every error to the walk function:
\* that of os.Lstat on the root, that of reading a directory (the root, or
\* the directories that hold the files), after which the directory's
\* entries are not visited; the walk function answers each with nil, so the
\* walk goes on and returns nil.  Every file lies in a directory of the
\* deepest level, so none is visited under these faults.  A file with the
\* extension ".json" that cannot be read is removed.
PurgeOutcomeUnder(fs, t, fault) ==
    CASE fault = "none" -> [err |-> "", files |-> PurgeOutcome(fs, t)]
      [] fault \in {"lstat root", "readdir root", "readdir leaf"} ->
           [err |-> "", files |-> fs]
      [] fault = "read" ->
           [err |-> "",
            files |-> [p \in {q \in DOMAIN fs : Ext(q[Len(q)]) # JsonExt} |-> fs[p]]]

\* What ListKeys() returns; the walk meets every file once, and the order
\* of the list is left out.
ListKeysOutcome(fs) ==
    {TrimSuffix(p[dirLevels + 1], JsonExt) :
        p \in {q \in DOMAIN fs : Ext(q[Len(q)]) = JsonExt /\ Len(q) >= dirLevels + 1}}

\***************************************************************************
\* Actions: one call each, run to completion
\***************************************************************************

\* History only: what key has in storage at instant t.
RecordState(fs, t, key) ==
    LET fp == FilePathOf[key]
    IN IF fp.err # "" \/ fp.path \notin DOMAIN fs THEN "absent"
       ELSE LET u == Unmarshal(fs[fp.path])
            IN IF u.err # "" THEN "corrupt"
               ELSE IF After(t, u.item.ExpireAt) THEN "expired"
               ELSE "live"

\* History only: how the record a Set replaces compares with the new one.
Replaced(fs, key, expireAt) ==
    LET fp == FilePathOf[key]
    IN IF fp.err # "" \/ fp.path \notin DOMAIN fs THEN "none"
       ELSE LET u == Unmarshal(fs[fp.path])
            IN IF u.err # "" THEN "corrupt"
               ELSE IF u.item.ExpireAt > expireAt THEN "later"
               ELSE IF u.item.ExpireAt < expireAt THEN "earlier"
               ELSE "same"

DoSet(key, data, d, skew, fault) ==
    /\ now + skew <= MaxTime
    /\ LET o == SetOutcome(files, dirs, now, now + skew, key, data, d, fault)
       IN /\ files' = o.files
          /\ dirs' = o.dirs
          /\ res' = [op |-> "SetWithTTL", key |-> key, err |-> o.err,
                     val |-> Replaced(files, key, now + d)]
          /\ pend' = [pend EXCEPT ![key] =
                        IF o.err = ""
                        THEN <<[data |-> data, d |-> d, start |-> now,
                                created |-> now + skew]>>
                        ELSE NoPend]
    /\ now' = now + skew
    /\ gone' = [gone EXCEPT ![key] = FALSE]
    /\ UNCHANGED <<ttl, th>>

\* fc.Set(key, data), which is SetWithTTL(key, data, fc.ttl).
Set ==
    \E key \in Keys, data \in Payloads, skew \in Skews, fault \in Faults :
        DoSet(key, data, ttl, skew, fault)

\* fc.SetWithTTL(key, data, d)
SetWithTTL ==
    \E key \in Keys, data \in Payloads, d \in TTLs, skew \in Skews, fault \in Faults :
        DoSet(key, data, d, skew, fault)

DoGet(key, fault) ==
    LET o == GetOutcomeUnder(files, now, key, fault)
    IN /\ files' = o.files
       /\ res' = [op |-> "Get", key |-> key, err |-> o.err, val |-> o.data]
       /\ UNCHANGED <<dirs, now, ttl, pend, gone, th>>

\* fc.Get(key)
Get ==
    \E key \in Keys, fault \in ReadFaults : DoGet(key, fault)

\* fc.GetString(key)
GetString ==
    \E key \in Keys, fault \in ReadFaults :
        LET o == GetStringOutcome(files, now, key, fault)
        IN /\ files' = o.files
           /\ res' = [op |-> "GetString", key |-> key, err |-> o.err,
                      val |-> o.str]
           /\ UNCHANGED <<dirs, now, ttl, pend, gone, th>>

\* fc.Exists(key)
Exists ==
    \E key \in Keys, fault \in ReadFaults :
        LET o == ExistsOutcome(files, now, key, fault)
        IN /\ files' = o.files
           /\ res' = [op |-> "Exists", key |-> key, err |-> "", val |-> o.found]
           /\ UNCHANGED <<dirs, now, ttl, pend, gone, th>>

\* fc.Delete(key)
Delete ==
    \E key \in Keys :
        LET o == DeleteOutcome(files, key)
        IN /\ files' = o.files
           /\ res' = [op |-> "Delete", key |-> key, err |-> o.err,
                      val |-> RecordState(files, now, key)]
           /\ pend' = [pend EXCEPT ![key] = NoPend]
           /\ gone' = [gone EXCEPT ![key] = (o.err = "") \/ gone[key]]
           /\ UNCHANGED <<dirs, now, ttl, th>>

\* fc.PurgeExpired()
PurgeExpired ==
    /\ files' = PurgeOutcome(files, now)
    /\ res' = [op |-> "PurgeExpired", key |-> <<>>, err |-> "", val |-> "none"]
    /\ UNCHANGED <<dirs, now, ttl, pend, gone, th>>

\* fc.ListKeys()
ListKeys ==
    /\ res' = [op |-> "ListKeys", key |-> <<>>, err |-> "",
               val |-> ListKeysOutcome(files)]
    /\ UNCHANGED <<files, dirs, now, ttl, pend, gone, th>>

\* The clock advances between calls.
Tick ==
    /\ now < MaxTime
    /\ now' = now + 1
    /\ UNCHANGED <<files, dirs, ttl, res, pend, gone, th>>

Next ==
    \/ Set
    \/ SetWithTTL
    \/ Get
    \/ GetString
    \/ Exists
    \/ Delete
    \/ PurgeExpired
    \/ ListKeys
    \/ Tick

Spec == Init /\ [][Next]_vars

\* fc.PurgeExpired() when the walk meets an I/O fault.
PurgeExpiredUnder ==
    \E fault \in WalkFaults :
        LET o == PurgeOutcomeUnder(files, now, fault)
        IN /\ files' = o.files
           /\ res' = [op |-> "PurgeExpired", key |-> <<>>, err |-> o.err,
                      val |-> fault]
           /\ UNCHANGED <<dirs, now, ttl, pend, gone, th>>

NextFault ==
    \/ Next
    \/ PurgeExpiredUnder

\* The calls of Spec, and sweeps that meet I/O faults.
SpecFault == Init /\ [][NextFault]_vars

\* NewFileCache(baseDir, ttl) on an empty directory, before calls whose
\* keys hold "_info.json" or "_toc.json".
InitQuirk ==
    /\ files = <<>>
    /\ dirs = {<<>>}
    /\ now = 0
    /\ ttl \in DefaultTTLs
    /\ res = NoRes
    /\ pend = [k \in QuirkKeys |-> NoPend]
    /\ gone = [k \in QuirkKeys |-> FALSE]
    /\ th = <<>>

\* fc.Set(key, data) of such a key
QuirkSet ==
    \E key \in QuirkKeys, data \in Payloads : DoSet(key, data, ttl, 0, "none")

\* fc.Get(key) of such a key
QuirkGet ==
    \E key \in QuirkKeys : DoGet(key, "none")

NextQuirk ==
    \/ QuirkSet
    \/ QuirkGet
    \/ Tick

SpecQuirk == InitQuirk /\ [][NextQuirk]_vars

\***************************************************************************
\* Concurrent calls: each thread runs one call, a step at a time
\***************************************************************************

Threads == {1, 2}

\* The payload of the records stored before the threads start.
InitPayload == <<104, 0>>

\* A thread about to run SetWithTTL(key, data, d), and one about to run
\* Get(key).
SetCall(key, data, d) ==
    [op |-> "SetWithTTL", key |-> key, data |-> data, d |-> d, pc |-> "start",
     expireAt |-> 0, created |-> 0, fd |-> "none", buf |-> <<>>, err |-> "",
     out |-> <<>>, todo |-> {}, path |-> <<>>]

GetCall(key) ==
    [op |-> "Get", key |-> key, data |-> <<>>, d |-> 0, pc |-> "read",
     expireAt |-> 0, created |-> 0, fd |-> "none", buf |-> <<>>, err |-> "",
     out |-> <<>>, todo |-> {}, path |-> <<>>]

\* A thread about to run Exists(key); Exists returns true when the call
\* ends with err = "".
ExistsCall(key) ==
    [op |-> "Exists", key |-> key, data |-> <<>>, d |-> 0, pc |-> "stat",
     expireAt |-> 0, created |-> 0, fd |-> "none", buf |-> <<>>, err |-> "",
     out |-> <<>>, todo |-> {}, path |-> <<>>]

\* A thread about to run PurgeExpired(); todo holds the files the walk has
\* still to visit and path the file it is at.
PurgeCall ==
    [op |-> "PurgeExpired", key |-> <<>>, data |-> <<>>, d |-> 0, pc |-> "walk",
     expireAt |-> 0, created |-> 0, fd |-> "none", buf |-> <<>>, err |-> "",
     out |-> <<>>, todo |-> {}, path |-> <<>>]

\* The store after SetWithTTL(k, InitPayload, d[k]) has run, at instant 0 and
\* one key after the other, for every key k in the domain of d.
InitStore(d) ==
    [p \in {FilePathOf[k].path : k \in DOMAIN d} |->
        LET k == CHOOSE j \in DOMAIN d : FilePathOf[j].path = p
        IN SetOutcome(<<>>, {<<>>}, 0, 0, k, InitPayload, d[k], "none").files[p]]

\* Thread 1 runs a Set; thread 2 runs a Set of another key, a Get or an
\* Exists of any key, or a PurgeExpired.  Two Sets of one key are not run
\* against each other.
InitConc ==
    /\ now = 0
    /\ ttl \in DefaultTTLs
    /\ res = NoRes
    /\ gone = [k \in Keys |-> FALSE]
    /\ \E S \in SUBSET Keys :
         \E d \in [S -> {1}] :
            /\ files = InitStore(d)
            /\ dirs = UNION {MkdirAll(Dir(FilePathOf[k].path)) : k \in S} \cup {<<>>}
            /\ pend = [k \in Keys |->
                         IF k \in S
                         THEN <<[data |-> InitPayload, d |-> d[k], start |-> 0,
                                 created |-> 0]>>
                         ELSE NoPend]
    /\ \E k1 \in Keys, p1 \in Payloads, d1 \in TTLs :
         \E c2 \in {SetCall(k2, p2, d2) :
                       k2 \in Keys \ {k1}, p2 \in Payloads, d2 \in TTLs}
                   \cup {GetCall(k2) : k2 \in Keys}
                   \cup {ExistsCall(k2) : k2 \in Keys}
                   \cup {PurgeCall} :
            th = [t \in Threads |-> IF t = 1 THEN SetCall(k1, p1, d1) ELSE c2]

\* os.Remove(path) by thread t: the path is unlinked, and a file another
\* thread holds open at that path lives on without a name.
Unlink(t, path) ==
    [u \in Threads |->
        IF u # t /\ th[u].fd = "linked" /\ FilePathOf[th[u].key].path = path
        THEN [th[u] EXCEPT !.fd = "orphan"]
        ELSE th[u]]

\* cache.go line 57: expireAt := time.Now().Add(ttl)
SetStart(t) ==
    /\ th[t].op = "SetWithTTL" /\ th[t].pc = "start"
    /\ th' = [th EXCEPT ![t].expireAt = now + th[t].d, ![t].pc = "item"]
    /\ UNCHANGED <<files, dirs, now, ttl, res, pend, gone>>

\* lines 59-72: the item, with Created: time.Now(), and getFilePath
SetItem(t) ==
    /\ th[t].op = "SetWithTTL" /\ th[t].pc = "item"
    /\ th' = [th EXCEPT ![t].created = now,
                        ![t].err = FilePathOf[th[t].key].err,
                        ![t].pc = IF FilePathOf[th[t].key].err # ""
                                  THEN "done" ELSE "mkdir"]
    /\ UNCHANGED <<files, dirs, now, ttl, res, pend, gone>>

\* lines 74-76: os.MkdirAll(filepath.Dir(filePath)); a directory another
\* thread made in between is no error
SetMkdir(t) ==
    /\ th[t].op = "SetWithTTL" /\ th[t].pc = "mkdir"
    /\ dirs' = dirs \cup MkdirAll(Dir(FilePathOf[th[t].key].path))
    /\ th' = [th EXCEPT ![t].pc = "open"]
    /\ UNCHANGED <<files, now, ttl, res, pend, gone>>

\* lines 78-83: json.Marshal, and the first half of ioutil.WriteFile: the
\* file is opened with O_WRONLY|O_CREATE|O_TRUNC, which leaves it empty
SetOpen(t) ==
    /\ th[t].op = "SetWithTTL" /\ th[t].pc = "open"
    /\ files' = WriteFile(files, FilePathOf[th[t].key].path, <<>>)
    /\ th' = [th EXCEPT ![t].fd = "linked", ![t].pc = "write"]
    /\ UNCHANGED <<dirs, now, ttl, res, pend, gone>>

\* lines 83-87: the second half of ioutil.WriteFile: the document is written
\* to the open file, which no longer shows at the path when it was unlinked
SetWrite(t) ==
    /\ th[t].op = "SetWithTTL" /\ th[t].pc = "write"
    /\ LET item == [Key |-> NormalizeKey(th[t].key), Data |-> th[t].data,
                    ExpireAt |-> th[t].expireAt, Created |-> th[t].created]
       IN files' = IF th[t].fd = "linked"
                   THEN WriteFile(files, FilePathOf[th[t].key].path, Marshal(item))
                   ELSE files
    /\ th' = [th EXCEPT ![t].fd = "none", ![t].pc = "done"]
    /\ UNCHANGED <<dirs, now, ttl, res, pend, gone>>

\* lines 131-138 of Exists: getFilePath and os.Stat
ExistsStat(t) ==
    /\ th[t].op = "Exists" /\ th[t].pc = "stat"
    /\ LET fp == FilePathOf[th[t].key]
       IN th' = IF fp.err # ""
                THEN [th EXCEPT ![t].err = fp.err, ![t].pc = "done"]
                ELSE IF fp.path \notin DOMAIN files
                THEN [th EXCEPT ![t].err = "cache not found", ![t].pc = "done"]
                ELSE [th EXCEPT ![t].pc = IF purgeOnLoad THEN "read" ELSE "done"]
    /\ UNCHANGED <<files, dirs, now, ttl, res, pend, gone>>

\* lines 92-103: getFilePath and ioutil.ReadFile, in Get and in the Get
\* that Exists calls (line 141)
GetRead(t) ==
    /\ th[t].op \in {"Get", "Exists"} /\ th[t].pc = "read"
    /\ LET fp == FilePathOf[th[t].key]
       IN th' = IF fp.err # ""
                THEN [th EXCEPT ![t].err = fp.err, ![t].pc = "done"]
                ELSE IF fp.path \notin DOMAIN files
                THEN [th EXCEPT ![t].err = "cache not found", ![t].pc = "done"]
                ELSE [th EXCEPT ![t].buf = files[fp.path], ![t].pc = "check"]
    /\ UNCHANGED <<files, dirs, now, ttl, res, pend, gone>>

\* lines 105-117: json.Unmarshal, the expiry test and the purge on load
GetCheck(t) ==
    /\ th[t].op \in {"Get", "Exists"} /\ th[t].pc = "check"
    /\ LET path == FilePathOf[th[t].key].path
           u == Unmarshal(th[t].buf)
       IN IF u.err # ""
          THEN /\ th' = [th EXCEPT ![t].err = "failed to parse cache file",
                                   ![t].pc = "done"]
               /\ files' = files
          ELSE IF After(now, u.item.ExpireAt)
          THEN /\ th' = [IF purgeOnLoad THEN Unlink(t, path) ELSE th
                            EXCEPT ![t].err = "cache expired", ![t].pc = "done"]
               /\ files' = IF purgeOnLoad /\ path \in DOMAIN files
                           THEN Remove(files, path) ELSE files
          ELSE /\ th' = [th EXCEPT ![t].out = u.item.Data, ![t].pc = "done"]
               /\ files' = files
    /\ UNCHANGED <<dirs, now, ttl, res, pend, gone>>

\* lines 169-176: filepath.Walk reads the names in the directories; the
\* walk function will be called on every file, and goes on with those whose
\* extension is ".json".  The walk visits the names of a directory in
\* lexical order; the keys of the model give it at most one such file.
PurgeWalk(t) ==
    /\ th[t].op = "PurgeExpired" /\ th[t].pc = "walk"
    /\ LET todo == {p \in DOMAIN files : Ext(p[Len(p)]) = JsonExt}
       IN th' = [th EXCEPT ![t].todo = todo,
                           ![t].pc = IF todo = {} THEN "done" ELSE "pread"]
    /\ UNCHANGED <<files, dirs, now, ttl, res, pend, gone>>

\* lines 178-182: ioutil.ReadFile of the next file; a file that is no longer
\* there cannot be read, and the os.Remove that follows finds nothing
PurgeRead(t) ==
    /\ th[t].op = "PurgeExpired" /\ th[t].pc = "pread"
    /\ \E p \in th[t].todo :
          th' = IF p \in DOMAIN files
                THEN [th EXCEPT ![t].path = p, ![t].buf = files[p],
                                ![t].pc = "pcheck"]
                ELSE [th EXCEPT ![t].todo = @ \ {p},
                                ![t].pc = IF th[t].todo = {p} THEN "done" ELSE "pread"]
    /\ UNCHANGED <<files, dirs, now, ttl, res, pend, gone>>

\* lines 184-194: json.Unmarshal, the expiry test and os.Remove
PurgeCheck(t) ==
    /\ th[t].op = "PurgeExpired" /\ th[t].pc = "pcheck"
    /\ LET path == th[t].path
           u == Unmarshal(th[t].buf)
           remove == u.err # "" \/ After(now, u.item.ExpireAt)
           rest == th[t].todo \ {path}
       IN /\ th' = [IF remove THEN Unlink(t, path) ELSE th
                       EXCEPT ![t].todo = rest,
                              ![t].pc = IF rest = {} THEN "done" ELSE "pread"]
          /\ files' = IF remove /\ path \in DOMAIN files
                      THEN Remove(files, path) ELSE files
    /\ UNCHANGED <<dirs, now, ttl, res, pend, gone>>

NextConc ==
    \/ \E t \in Threads : SetStart(t)
    \/ \E t \in Threads : SetItem(t)
    \/ \E t \in Threads : SetMkdir(t)
    \/ \E t \in Threads : SetOpen(t)
    \/ \E t \in Threads : SetWrite(t)
    \/ \E t \in Threads : GetRead(t)
    \/ \E t \in Threads : GetCheck(t)
    \/ \E t \in Threads : ExistsStat(t)
    \/ \E t \in Threads : PurgeWalk(t)
    \/ \E t \in Threads : PurgeRead(t)
    \/ \E t \in Threads : PurgeCheck(t)
    \/ Tick

SpecConc == InitConc /\ [][NextConc]_vars

\***************************************************************************
\* Properties
\***************************************************************************

\* The item the pending Set of key k built.
PendItem(k) ==
    [Key |-> NormalizeKey(k), Data |-> pend[k][1].data,
     ExpireAt |-> pend[k][1].start + pend[k][1].d, Created |-> pend[k][1].created]

\* The last call was a successful Set or SetWithTTL of key k.
LastSetOK(k) == res.op = "SetWithTTL" /\ res.key = k /\ res.err = ""

\* Key k has a file that holds a well-formed item.
WellFormed(fs, k) ==
    /\ FilePathOf[k].path \in DOMAIN fs
    /\ Unmarshal(fs[FilePathOf[k].path]).err = ""

StoredItem(fs, k) == Unmarshal(fs[FilePathOf[k].path]).item

\* C1: after a successful Set(K, P) with a positive default TTL and no later
\* Set or Delete of K, a Get(K) issued while the clock is not after the
\* record's expiration time succeeds and returns exactly P.
C1_RoundTrip ==
    \A k \in Keys :
        (/\ pend[k] # NoPend
         /\ pend[k][1].d = ttl
         /\ ttl > 0
         /\ ~After(now, pend[k][1].start + pend[k][1].d))
        => LET g == GetOutcome(files, now, k)
           IN g.err = "" /\ g.data = pend[k][1].data

\* A Get returned the non-empty payload of a pending default-TTL Set after
\* the clock had advanced.
C1_Witness ==
    \E k \in Keys :
        /\ pend[k] # NoPend
        /\ pend[k][1].d = ttl
        /\ pend[k][1].data = <<104, 0>>
        /\ now > pend[k][1].created
        /\ res.op = "Get" /\ res.key = k /\ res.err = ""
        /\ res.val = <<104, 0>>

\* C2: a record written by SetWithTTL(K, P, d) with d > 0 and no later Set
\* or Delete of K is returned by Get(K) at every time strictly before
\* createdAt + d, and Get(K) fails with "cache expired" at every time
\* strictly after createdAt + d.
C2_ExpirationBoundary ==
    \A k \in Keys :
        (pend[k] # NoPend /\ pend[k][1].d > 0)
        => LET g == GetOutcome(files, now, k)
               limit == pend[k][1].created + pend[k][1].d
           IN /\ now < limit => (g.err = "" /\ g.data = pend[k][1].data)
              /\ now > limit => g.err = "cache expired"

\* C3: after a successful Set of K, whatever record K had before, the file
\* of K holds exactly the item that Set built (its payload, its expireAt,
\* its created), and a Get(K) not after that expireAt returns its payload.
C3_Overwrite ==
    \A k \in Keys :
        LastSetOK(k)
        => /\ pend[k] # NoPend
           /\ FilePathOf[k].path \in DOMAIN files
           /\ files[FilePathOf[k].path] = Marshal(PendItem(k))
           /\ StoredItem(files, k) = PendItem(k)
           /\ ~After(now, PendItem(k).ExpireAt)
              => GetOutcome(files, now, k).data = pend[k][1].data

\* A Set replaced a record that expired later than the new one does, and
\* the new payload is not empty.
C3_Witness ==
    \E k \in Keys :
        /\ LastSetOK(k)
        /\ res.val = "later"
        /\ pend[k][1].data = <<104, 0>>
        /\ StoredItem(files, k).ExpireAt = pend[k][1].start + pend[k][1].d

\* C4: after a successful Delete(K) and no later Set of K, Exists(K) is
\* false and Get(K) fails with "cache not found".
C4_DeleteRemoves ==
    \A k \in Keys :
        gone[k]
        => /\ \A fault \in ReadFaults :
                 /\ ~ExistsOutcome(files, now, k, fault).found
                 /\ GetOutcomeUnder(files, now, k, fault).err = "cache not found"

\* A Get of a deleted key failed with "cache not found".
C4_Witness ==
    \E k \in Keys :
        /\ gone[k]
        /\ res.op = "Get" /\ res.key = k /\ res.err = "cache not found"

\* A step of PurgeExpired: the one call that leaves "PurgeExpired" in res
\* (a later tick of the clock leaves res alone and moves now).
PurgeStep == res'.op = "PurgeExpired" /\ now' = now

\* C5: after PurgeExpired returns, no key of any name whose stored record
\* had expireAt earlier than the time of the sweep still has its file.
C5_PurgeRemovesExpired ==
    [][PurgeStep =>
         \A k \in Keys :
            (WellFormed(files, k) /\ After(now, StoredItem(files, k).ExpireAt))
            => FilePathOf[k].path \notin DOMAIN files']_vars

\* C6: PurgeExpired leaves every well-formed record that is not past its
\* expireAt as it was: afterwards Exists(K) is true and Get(K) returns the
\* payload it returned before the sweep.
C6_PurgeSparesLive ==
    [][PurgeStep =>
         \A k \in Keys :
            (WellFormed(files, k) /\ ~After(now, StoredItem(files, k).ExpireAt))
            => /\ FilePathOf[k].path \in DOMAIN files'
               /\ files'[FilePathOf[k].path] = files[FilePathOf[k].path]
               /\ ExistsOutcome(files', now', k, "none").found
               /\ GetOutcome(files', now', k).err = ""
               /\ GetOutcome(files', now', k).data = GetOutcome(files, now, k).data]_vars

\* After a sweep that read the file of a key (its name ends in ".json"), the
\* key still has its record with its payload, and the clock stands exactly
\* at the record's expireAt, the last instant at which it is live.
C6_Witness ==
    \E k \in Keys :
        /\ res.op = "PurgeExpired"
        /\ Ext(k) = JsonExt
        /\ WellFormed(files, k)
        /\ StoredItem(files, k).ExpireAt = now
        /\ StoredItem(files, k).Data = <<104, 0>>

\* The files present are exactly those of the keys with a pending Set:
\* every file was written by a successful Set and none has been removed.
OnlySetKeys ==
    /\ \A k \in Keys : ~gone[k]
    /\ DOMAIN files = {FilePathOf[k].path : k \in {j \in Keys : pend[j] # NoPend}}

\* C7: after successful Sets of a set S of keys and no removal, ListKeys
\* returns exactly the keys of S, each as it was passed to Set.
C7_EnumerationComplete ==
    (res.op = "ListKeys" /\ OnlySetKeys)
    => res.val = {k \in Keys : pend[k] # NoPend}

\* C8: in every state and at every time, Exists(K) is true exactly when a
\* Get(K) issued in that state would succeed, and false when the file is
\* absent, expired, unparseable or unreadable; both leave the same files.
C8_ExistsAgreesWithGet ==
    \A k \in Keys, fault \in ReadFaults :
        LET e == ExistsOutcome(files, now, k, fault)
            g == GetOutcomeUnder(files, now, k, fault)
        IN /\ e.found \in BOOLEAN
           /\ e.found <=> (g.err = "")
           /\ e.files = g.files
           /\ (\/ FilePathOf[k].path \notin DOMAIN files
               \/ fault = "read"
               \/ ~WellFormed(files, k)
               \/ After(now, StoredItem(files, k).ExpireAt)) => ~e.found

\* Exists returned false for a key whose file is present but holds no
\* well-formed item.
C8_Witness ==
    \E k \in Keys :
        /\ res.op = "Exists" /\ res.key = k /\ res.val = FALSE
        /\ FilePathOf[k].path \in DOMAIN files
        /\ Unmarshal(files[FilePathOf[k].path]).err # ""

\* The item thread t's Set builds.
ThreadItem(t) ==
    [Key |-> NormalizeKey(th[t].key), Data |-> th[t].data,
     ExpireAt |-> th[t].expireAt, Created |-> th[t].created]

C10_AtomicReplace ==
    \A g \in Threads, w \in Threads :
        (/\ th[g].op = "Get" /\ th[g].pc = "done"
         /\ th[w].op = "SetWithTTL" /\ th[w].key = th[g].key
         /\ th[w].d > 0
         /\ pend[th[g].key] # NoPend
         /\ ~After(now, pend[th[g].key][1].start + pend[th[g].key][1].d)
         /\ th[w].pc # "start" => ~After(now, th[w].expireAt))
        => /\ th[g].err = ""
           /\ th[g].out \in {pend[th[g].key][1].data, th[w].data}

\* C11: the record of a key with a pending Set has expireAt = created + d,
\* for the TTL d of that Set, also when the clock moved while the Set ran.
C11_ExpiresAtIsCreatedPlusTTL ==
    \A k \in Keys :
        (pend[k] # NoPend /\ WellFormed(files, k))
        => StoredItem(files, k).ExpireAt
              = StoredItem(files, k).Created + pend[k][1].d

\* C12 as stated: right after a successful SetWithTTL(K, P, d) with d <= 0,
\* at whatever clock reading, Get(K) fails with "cache expired" and
\* Exists(K) is false.
C12_NonPositiveTTLExpiresAtOnce ==
    \A k \in Keys :
        (LastSetOK(k) /\ pend[k][1].d <= 0)
        => /\ GetOutcome(files, now, k).err = "cache expired"
           /\ ~ExistsOutcome(files, now, k, "none").found

\* C12 amended: right after a successful SetWithTTL(K, P, d) with d <= 0,
\* Get(K) fails with "cache expired" and Exists(K) is false when d < 0 or
\* the clock reads later than it did when the Set started; with d = 0 and
\* the clock where it was, Get(K) returns P and Exists(K) is true.
C12_NonPositiveTTLExpiresAfterStart ==
    \A k \in Keys :
        (LastSetOK(k) /\ pend[k][1].d <= 0)
        => IF pend[k][1].d < 0 \/ now > pend[k][1].start
           THEN /\ GetOutcome(files, now, k).err = "cache expired"
                /\ ~ExistsOutcome(files, now, k, "none").found
           ELSE /\ GetOutcome(files, now, k).err = ""
                /\ GetOutcome(files, now, k).data = pend[k][1].data
                /\ ExistsOutcome(files, now, k, "none").found

\* The call after a successful SetWithTTL(K, P, 0) was a Get(K), one tick
\* later, and it failed with "cache expired".
C12_Witness ==
    \E k \in Keys :
        /\ pend[k] # NoPend
        /\ pend[k][1].d = 0
        /\ now = pend[k][1].start + 1
        /\ res.op = "Get" /\ res.key = k /\ res.err = "cache expired"

\* Key k has a well-formed record and the clock is after its expireAt.
ExpiredRecord(fs, t, k) ==
    WellFormed(fs, k) /\ After(t, StoredItem(fs, k).ExpireAt)

\* C13: a Get(K) or an Exists(K) that finds K's record expired fails with
\* "cache expired" (Exists returns false) and removes K's file; in the
\* storage it leaves, at that instant and at every later one, Get(K) fails
\* with "cache not found" and so does Delete(K).
C13_PurgeOnRead ==
    \A k \in Keys :
        ExpiredRecord(files, now, k)
        => LET g == GetOutcome(files, now, k)
               e == ExistsOutcome(files, now, k, "none")
           IN /\ g.err = "cache expired"
              /\ ~e.found
              /\ \A o \in {g, e} :
                    /\ FilePathOf[k].path \notin DOMAIN o.files
                    /\ \A t \in now .. MaxTime :
                          GetOutcome(o.files, t, k).err = "cache not found"
                    /\ DeleteOutcome(o.files, k).err = "cache not found"

\* A Get of key "a" failed with "cache not found" although a Set of it had
\* succeeded and no Delete of it was called since: the sweep never removes
\* a file of that name, so an earlier Get or Exists removed the file.
C13_Witness ==
    /\ pend[KeyA] # NoPend
    /\ res.op = "Get" /\ res.key = KeyA /\ res.err = "cache not found"

\* C14: Delete(K) succeeds and removes K's file, and nothing else, whenever
\* the file is present, be its record live, expired or corrupt; it fails
\* with "cache not found" exactly when the file is absent, and then leaves
\* the storage as it was.  A Delete(K) right after a Delete(K) fails with
\* "cache not found".
C14_DeleteByPresence ==
    /\ \A k \in Keys :
          LET path == FilePathOf[k].path
              o == DeleteOutcome(files, k)
          IN /\ o.err \in {"", "cache not found"}
             /\ (o.err = "") <=> (path \in DOMAIN files)
             /\ (o.err = "cache not found") => (o.files = files)
             /\ path \notin DOMAIN o.files
             /\ DOMAIN o.files = DOMAIN files \ {path}
             /\ \A p \in DOMAIN o.files : o.files[p] = files[p]
             /\ DeleteOutcome(o.files, k).err = "cache not found"
    /\ res.op = "Delete"
       => /\ (res.err = "") <=> (res.val \in {"live", "expired", "corrupt"})
          /\ (res.err = "cache not found") <=> (res.val = "absent")
          /\ FilePathOf[res.key].path \notin DOMAIN files

\* A Delete succeeded on a file that held no well-formed record, and the
\* other key's record is still there.
C14_Witness ==
    /\ res.op = "Delete" /\ res.err = "" /\ res.val = "corrupt"
    /\ \E k \in Keys \ {res.key} : WellFormed(files, k)

\* C15: every key whose record is past its expireAt and whose file is still
\* in storage is among the keys ListKeys returns.
C15_ListKeysKeepsExpired ==
    \A k \in Keys :
        ExpiredRecord(files, now, k) => k \in ListKeysOutcome(files)

\* The names "a", "a_info.json" and "a_toc.json" normalize to one string
\* and have three different files in one directory.
ThreeFilesOneDir ==
    LET names == {KeyA, KeyAInfo, KeyAToc}
    IN /\ \A j \in names : NormalizeKey(j) = KeyA
       /\ Cardinality({getFilePath(j).path : j \in names}) = 3
       /\ Cardinality({Dir(getFilePath(j).path) : j \in names}) = 1

C17_PurgeReportsWalkFailure ==
    res.op = "PurgeExpired"
    => /\ res.val \in {"lstat root", "readdir root", "readdir leaf"} => res.err # ""
       /\ res.val = "read" => res.err = ""

\* C18: once a Set(K, P, d) with d > 0 has completed successfully, whatever
\* Get, Exists or PurgeExpired ran concurrently with it, K's file is present
\* and Get(K) returns P while the clock is not after the record's expireAt
\* (which is never later than created + d).
C18_NoLostWrite ==
    \A w \in Threads :
        (/\ th[w].op = "SetWithTTL" /\ th[w].pc = "done" /\ th[w].err = ""
         /\ th[w].d > 0
         /\ ~After(now, th[w].expireAt))
        => /\ FilePathOf[th[w].key].path \in DOMAIN files
           /\ GetOutcome(files, now, th[w].key).err = ""
           /\ GetOutcome(files, now, th[w].key).data = th[w].data

\* s holds sub.
Contains(s, sub) == \E i \in 1 .. Len(s) : HasAt(s, i, sub)

\* C19 as stated: after a successful Set(K, P) of a key that holds
\* "_info.json" or "_toc.json", Get(K) with the same key succeeds and
\* returns P while the record is live, the file is named by K itself, and
\* the key stored in the record differs from K and holds neither
\* "_info.json" nor "_toc.json".
C19_StoredKeyHoldsNoSuffix ==
    \A k \in QuirkKeys :
        (LastSetOK(k) /\ ~After(now, PendItem(k).ExpireAt))
        => /\ GetOutcome(files, now, k).err = ""
           /\ GetOutcome(files, now, k).data = pend[k][1].data
           /\ FilePathOf[k].path[dirLevels + 1] = k
           /\ StoredItem(files, k).Key # k
           /\ ~Contains(StoredItem(files, k).Key, InfoSuffix)
           /\ ~Contains(StoredItem(files, k).Key, TocSuffix)

\* What the two passes leave of each key: "a_info.json" gives "a";
\* "a_info_toc.json.json" has no "_info.json" for the first pass and loses
\* its "_toc.json" in the second, which leaves "a_info.json";
\* "a_toc_info.json.json" loses its "_info.json" in the first pass and the
\* "_toc.json" that this forms in the second, which leaves "a".
StoredKeyOf ==
    [k \in QuirkKeys |->
        IF k = KeyInfoAroundToc THEN <<"a">> \o InfoSuffix ELSE <<"a">>]

\* C19 amended: after a successful Set(K, P) of a key that holds
\* "_info.json" or "_toc.json", Get(K) with the same key succeeds and
\* returns P while the record is live, the file is named by K itself, and
\* the key stored in the record differs from K: it is what is left of K
\* after one pass that removes every "_info.json" and then one pass that
\* removes every "_toc.json".  For "a_info.json" that is "a".
C19_StoredKeyAfterTwoPasses ==
    \A k \in QuirkKeys :
        (LastSetOK(k) /\ ~After(now, PendItem(k).ExpireAt))
        => /\ GetOutcome(files, now, k).err = ""
           /\ GetOutcome(files, now, k).data = pend[k][1].data
           /\ FilePathOf[k].path[dirLevels + 1] = k
           /\ StoredItem(files, k).Key # k
           /\ StoredItem(files, k).Key = StoredKeyOf[k]
           /\ StoredItem(files, k).Key
                 = ReplaceAllEmpty(ReplaceAllEmpty(k, InfoSuffix), TocSuffix)

\* A Get("a_info.json") returned the payload of the pending Set of that key,
\* whose record holds the key "a" in a file named "a_info.json".
C19_Witness ==
    /\ pend[KeyAInfo] # NoPend
    /\ res.op = "Get" /\ res.key = KeyAInfo /\ res.err = ""
    /\ res.val = <<104, 0>>
    /\ StoredItem(files, KeyAInfo).Key = KeyA
    /\ FilePathOf[KeyAInfo].path[dirLevels + 1] = KeyAInfo

\* A step of Get, GetString, Exists or ListKeys: the calls that leave their
\* name in res (a tick of the clock leaves res alone and moves now).
ReadStep ==
    /\ res'.op \in {"Get", "GetString", "Exists", "ListKeys"}
    /\ now' = now

\* C20: a Get, GetString, Exists or ListKeys leaves the directories and the
\* files as they were, unless it is a Get, GetString or Exists of a key whose
\* record is expired, which removes that key's file and nothing else.  A
\* call that succeeds (Exists: returns true) changes nothing, so the
\* record keeps its payload, created and expireAt; a call that fails with
\* "cache not found" leaves the same set of files.
C20_ReadsKeepLiveRecords ==
    [][ReadStep =>
         /\ dirs' = dirs
         /\ \/ files' = files
            \/ /\ res'.op \in {"Get", "GetString", "Exists"}
               /\ ExpiredRecord(files, now, res'.key)
               /\ DOMAIN files' = DOMAIN files \ {FilePathOf[res'.key].path}
               /\ \A p \in DOMAIN files' : files'[p] = files[p]
         /\ (res'.op \in {"Get", "GetString"} /\ res'.err = "") => files' = files
         /\ (res'.op = "Exists" /\ res'.val) => files' = files
         /\ res'.err = "cache not found" => DOMAIN files' = DOMAIN files]_vars

\* An Exists returned true after the clock had moved on from the Set, and
\* the file still holds exactly the item that Set built.
C20_Witness ==
    \E k \in Keys :
        /\ res.op = "Exists" /\ res.key = k /\ res.val
        /\ pend[k] # NoPend
        /\ now > pend[k][1].start
        /\ files[FilePathOf[k].path] = Marshal(PendItem(k))

====
